---- MODULE Spec2Model ----
(***************************************************************************)
(* Model of src/app.py: the composite scorer (calculate_score), the symbol *)
(* cache (SYMBOLS_CACHE, get_symbols) and the scan loop of scan_stocks.    *)
(*                                                                         *)
(* Numbers.  The program computes with floats.  The model computes with    *)
(* exact rationals <<n, d>>, d > 0, kept in lowest terms, so sums and      *)
(* quotients such as volume_ratio / volume_min are exact.  Thresholds that *)
(* are used as divisors (volume_min, adx_min) are drawn from non-zero      *)
(* values.  The clock counts half seconds, so time.sleep(0.5) is one tick. *)
(* round(score, 1) is the nearest tenth of the exact value.                *)
(*                                                                         *)
(* Symbols are numbered; a symbol list is a sequence of distinct numbers.  *)
(* The data source's answers to one scan (feed) are fixed when the scan    *)
(* starts: for each position of symbols[:limit], an exception, or a        *)
(* history of some length with its last-bar indicator values.  A result    *)
(* record keeps the two fields the response is ordered and counted by,     *)
(* symbol and score.                                                       *)
(***************************************************************************)
EXTENDS Integers, Sequences, FiniteSets, TLC

VARIABLES
    cache,        \* SYMBOLS_CACHE: [data, last_updated]
    now,          \* time.time(), in half seconds
    pc,           \* position of the scan request: idle, loop, finish, done
    symbols,      \* scan_stocks: symbols (result of get_symbols)
    params,       \* scan_stocks: the six thresholds and max_stocks
    feed,         \* what the data source yields for the symbol at each position
    i,            \* scan_stocks: number of loop iterations started
    results,      \* scan_stocks: results
    processed,    \* scan_stocks: processed
    errors,       \* scan_stocks: errors
    start_time,   \* scan_stocks: start_time
    response,     \* the JSON body and status returned by scan_stocks
    score_args,   \* arguments of the latest calculate_score call
    score_ret,    \* its return value
    calls,        \* the get_symbols / refresh_symbols call of each request thread
    last_ok       \* time of the latest fetch of a non-empty list (history)

scanvars == <<pc, symbols, params, feed, i, results, processed, errors,
              start_time, response, score_args, score_ret>>

vars == <<cache, now, scanvars, calls, last_ok>>

None == -1            \* SYMBOLS_CACHE['last_updated'] is None

----------------------------------------------------------------------------
(* Exact rational arithmetic                                               *)

RECURSIVE GCD(_, _)
GCD(a, b) == IF b = 0 THEN a ELSE GCD(b, a % b)

AbsInt(n) == IF n < 0 THEN -n ELSE n

\* <<n, d>> with d # 0, brought to lowest terms with a positive denominator
Norm(n, d) ==
    LET g == GCD(AbsInt(n), AbsInt(d))
        s == IF d < 0 THEN -1 ELSE 1
    IN  <<(s * n) \div g, (s * d) \div g>>

R(n) == <<n, 1>>
Q(n, d) == Norm(n, d)

RAdd(a, b) == Norm(a[1] * b[2] + b[1] * a[2], a[2] * b[2])
RSub(a, b) == Norm(a[1] * b[2] - b[1] * a[2], a[2] * b[2])
RMul(a, b) == Norm(a[1] * b[1], a[2] * b[2])
RDiv(a, b) == Norm(a[1] * b[2], a[2] * b[1])
RLeq(a, b) == a[1] * b[2] <= b[1] * a[2]
RLt(a, b) == a[1] * b[2] < b[1] * a[2]
RAbs(a) == <<AbsInt(a[1]), a[2]>>
RMin(a, b) == IF RLt(b, a) THEN b ELSE a

\* an undefined indicator value (pd.isna): no rational has denominator 0
NaN == <<0, 0>>
IsNaN(x) == x[2] = 0

----------------------------------------------------------------------------
(* calculate_score                                                          *)

\* RSI Score (2 points max)
RsiScore(rsi, rsi_min, rsi_max) ==
    IF RLeq(rsi_min, rsi) /\ RLeq(rsi, rsi_max)
    THEN R(2)
    ELSE IF RLeq(RAbs(RSub(rsi, RDiv(RAdd(rsi_min, rsi_max), R(2)))), R(10))
         THEN R(1)
         ELSE R(0)

\* Volume Score
VolumeScore(volume_ratio, volume_min) ==
    IF RLeq(volume_min, volume_ratio)
    THEN RMin(R(2), RDiv(volume_ratio, volume_min))
    ELSE R(0)

\* ADX Score
AdxScore(adx, adx_min) ==
    IF RLeq(adx_min, adx) THEN RMin(R(2), RDiv(adx, adx_min)) ELSE R(0)

MfiScore_byMin(mfi, mfi_min) ==
    IF RLeq(mfi_min, mfi) THEN RMin(R(2), RDiv(mfi, mfi_min)) ELSE R(0)

\* MFI Score
MfiScore(mfi, mfi_min) ==
    IF RLeq(mfi_min, mfi) THEN RMin(R(2), RDiv(mfi, R(50))) ELSE R(0)

\* CMF Score
CmfScore(cmf, cmf_min) ==
    IF RLeq(cmf_min, cmf) THEN RMin(R(2), RMul(cmf, R(10))) ELSE R(0)

calculate_score(rsi, volume_ratio, adx, mfi, cmf, rsi_min, rsi_max, volume_min, adx_min, mfi_min, cmf_min) ==
    LET s1 == RsiScore(rsi, rsi_min, rsi_max)
        s2 == RAdd(s1, VolumeScore(volume_ratio, volume_min))
        s3 == RAdd(s2, AdxScore(adx, adx_min))
        s4 == RAdd(s3, MfiScore(mfi, mfi_min))
        s5 == RAdd(s4, CmfScore(cmf, cmf_min))
    IN  RMin(s5, R(10))

IsMatch_low(score) == RLeq(R(3), score)

\* scan_stocks: "if score >= 6.0"
IsMatch(score) == RLeq(R(6), score)

\* scan_stocks: the defaults of the six query parameters
DefaultConfig ==
    [rsi_min |-> R(25), rsi_max |-> R(45), volume_min |-> Q(3, 2),
     adx_min |-> R(25), mfi_min |-> R(30), cmf_min |-> Q(1, 10)]

ScoreOf(s, c) ==
    calculate_score(s.rsi, s.volume_ratio, s.adx, s.mfi, s.cmf,
                    c.rsi_min, c.rsi_max, c.volume_min, c.adx_min,
                    c.mfi_min, c.cmf_min)

----------------------------------------------------------------------------
(* Bounds and input sets                                                    *)

MaxSyms == 3        \* short symbol lists have at most this many symbols
LongLen == 27       \* length of the one long symbol list

TicksPerSecond == 2
\* a fetch returns at once or after 30 seconds
FetchDurations == {0, 30 * TicksPerSecond}
MaxClock == 70      \* no slow fetch starts after this many ticks

NReaders == 1       \* request threads that call get_symbols
MaxDays == 1        \* days that pass while the calls run

\* thread 0 serves POST /api/refresh-symbols, the others call get_symbols
Refresher == 0
Readers == 1..NReaders
Threads == {Refresher} \cup Readers

\* a thread that has not been given a request
NoCall ==
    [pc |-> "idle", t |-> 0, symbols |-> <<>>, ret |-> <<>>,
     raised |-> FALSE, fetched |-> FALSE, seen |-> <<>>, fresh |-> FALSE]

\* SYMBOLS_CACHE['cache_duration']
CacheDuration == 24 * 60 * 60 * TicksPerSecond

\* scan_stocks: "if errors > 20"
MaxErrors == 20
\* scan_stocks: results[:25]
TopN == 25
\* scan_stocks: "if len(hist) < 20"
MinBars == 20
\* scan_stocks: request.args.get('limit', 100)
DefaultLimit == 100

Ident(n) == [j \in 1..n |-> j]

\* symbol lists fetch_nifty500_symbols can return; symbols are numbered
SymbolLists ==
    {Ident(n) : n \in 0..MaxSyms} \cup {<<2, 1>>} \cup {Ident(LongLen)}

Limits == {-1, 0, 2, 10, DefaultLimit}

LooseConfig ==
    [rsi_min |-> R(30), rsi_max |-> R(70), volume_min |-> R(1),
     adx_min |-> R(20), mfi_min |-> R(40), cmf_min |-> R(0)]

NegCmfConfig == [DefaultConfig EXCEPT !.cmf_min = Q(-1, 2)]

\* thresholds of the scans; the query parameters are taken to parse
Configs == {DefaultConfig, LooseConfig}

\* last-bar values of one symbol's history: indicators may be NaN
Raw(rsi, mfi, adx, cmf, volume, ma) ==
    [rsi |-> rsi, mfi |-> mfi, adx |-> adx, cmf |-> cmf,
     volume |-> volume, volume_20ma |-> ma]

\* with the default thresholds these score 8.9, 7.2, 7.24, 3.0, 1.0 and 4.9
Raw89 == Raw(R(35), R(95), R(50), Q(1, 10), 300, 100)
Raw72 == Raw(R(35), R(60), R(50), Q(1, 10), 150, 100)
Raw724 == Raw(R(35), R(62), R(50), Q(1, 10), 150, 100)
Raw30 == Raw(R(35), R(20), R(25), R(0), 100, 100)
RawNaN == Raw(NaN, NaN, NaN, NaN, 100, 0)
RawPart == Raw(NaN, R(95), NaN, Q(1, 10), 300, 100)

RawSnaps == {Raw89, Raw72, Raw724, Raw30, RawNaN, RawPart}

NoRaw == Raw(NaN, NaN, NaN, NaN, 0, 0)

\* stock.history raises, or returns a history of `bars` daily bars
Raises == [kind |-> "raise", bars |-> 0, raw |-> NoRaw]
Hist(n, raw) == [kind |-> "hist", bars |-> n, raw |-> raw]

Outcomes ==
    {Raises, Hist(MinBars - 1, Raw89), Hist(MinBars, Raw72)}
    \cup {Hist(3 * MinBars, r) : r \in RawSnaps \ {Raw72}}

\* the data source's answers for a scan of n symbols: every combination for
\* a short list; for the long list one answer for all symbols, or a raise
\* for all symbols but one, or a 7.2 match for all but one that raises or
\* matches with a score of 8.9 or of 7.2
Feeds(n) ==
    IF n <= MaxSyms
    THEN [1..n -> Outcomes]
    ELSE {[j \in 1..n |-> o] : o \in Outcomes}
         \cup {[j \in 1..n |-> IF j = k THEN o ELSE Raises] :
                 k \in 1..n, o \in Outcomes}
         \cup {[j \in 1..n |-> IF j = k THEN o ELSE Hist(MinBars, Raw72)] :
                 k \in 1..n,
                 o \in {Raises, Hist(3 * MinBars, Raw89),
                        Hist(3 * MinBars, Raw724)}}

----------------------------------------------------------------------------
(* The symbol cache                                                         *)

\* get_symbols at time t, when fetch_nifty500_symbols would return `fetched`
get_symbols(c, t, fetched) ==
    IF /\ c.data # <<>>
       /\ c.last_updated # None
       /\ (t - c.last_updated) < CacheDuration
    THEN [ret |-> c.data, cache |-> c, fetches |-> 0]
    ELSE IF fetched # <<>>
         THEN [ret |-> fetched,
               cache |-> [data |-> fetched, last_updated |-> t],
               fetches |-> 1]
         ELSE [ret |-> c.data, cache |-> c, fetches |-> 1]

----------------------------------------------------------------------------
(* scan_stocks                                                              *)

Min(a, b) == IF a < b THEN a ELSE b
Max(a, b) == IF a > b THEN a ELSE b

\* symbols[:max_stocks], a Python slice: a negative stop counts from the end
SliceTo(s, m) ==
    IF m >= 0 THEN SubSeq(s, 1, Min(m, Len(s)))
    ELSE SubSeq(s, 1, Max(Len(s) + m, 0))

ScanList == SliceTo(symbols, params.max_stocks)

\* round(x, 1) as a whole number of tenths, a tie going to the even tenth
Round1(x) ==
    LET n10 == 10 * x[1]
        fl == n10 \div x[2]
        rem2 == 2 * (n10 - fl * x[2])
    IN  IF rem2 < x[2] THEN fl
        ELSE IF rem2 > x[2] THEN fl + 1
        ELSE IF fl % 2 = 0 THEN fl ELSE fl + 1

Snapshot_adxMin(raw) ==
    [rsi |-> IF IsNaN(raw.rsi) THEN R(50) ELSE raw.rsi,
     mfi |-> IF IsNaN(raw.mfi) THEN R(50) ELSE raw.mfi,
     adx |-> IF IsNaN(raw.adx) THEN R(25) ELSE raw.adx,
     cmf |-> IF IsNaN(raw.cmf) THEN R(0) ELSE raw.cmf,
     volume_ratio |-> IF raw.volume_20ma > 0
                      THEN Q(raw.volume, raw.volume_20ma) ELSE R(1)]

\* "Get current values (handle NaN)" and the volume ratio
Snapshot(raw) ==
    [rsi |-> IF IsNaN(raw.rsi) THEN R(50) ELSE raw.rsi,
     mfi |-> IF IsNaN(raw.mfi) THEN R(50) ELSE raw.mfi,
     adx |-> IF IsNaN(raw.adx) THEN R(20) ELSE raw.adx,
     cmf |-> IF IsNaN(raw.cmf) THEN R(0) ELSE raw.cmf,
     volume_ratio |-> IF raw.volume_20ma > 0
                      THEN Q(raw.volume, raw.volume_20ma) ELSE R(1)]

\* the fields of stock_result the response is ordered and counted by
StockResult(symbol, score) == [symbol |-> symbol, score |-> Round1(score)]

TooManyErrors_atCeiling(errs) == errs >= MaxErrors

\* "if errors > 20: break"
TooManyErrors(errs) == errs > MaxErrors

LoopDone_budget(idx, n) ==
    idx >= n \/ now - start_time > 25 * TicksPerSecond

\* the for loop has run out of symbols
LoopDone(idx, n) == idx >= n

Classify_shortIsError(o) ==
    IF o.kind = "raise" \/ o.bars < MinBars THEN "error" ELSE "score"

Classify_swallow(o) ==
    IF o.kind = "raise" \/ o.bars < MinBars THEN "skip" ELSE "score"

\* what one iteration does with the data source's answer: the except
\* handler, the "continue" of a short history, or indicators and scoring
Classify(o) ==
    IF o.kind = "raise" THEN "error"
    ELSE IF o.bars < MinBars THEN "skip"
    ELSE "score"

InsertDesc_unstable(s, x) ==
    LET k == Cardinality({j \in 1..Len(s) : s[j].score > x.score})
    IN  SubSeq(s, 1, k) \o <<x>> \o SubSeq(s, k + 1, Len(s))

\* insertion of x behind every element whose key is not smaller
InsertDesc(s, x) ==
    LET k == Cardinality({j \in 1..Len(s) : s[j].score >= x.score})
    IN  SubSeq(s, 1, k) \o <<x>> \o SubSeq(s, k + 1, Len(s))

\* results.sort(key=lambda x: x['score'], reverse=True): a stable sort
RECURSIVE SortByScoreDesc(_)
SortByScoreDesc(s) ==
    IF s = <<>> THEN <<>>
    ELSE InsertDesc(SortByScoreDesc(SubSeq(s, 1, Len(s) - 1)), s[Len(s)])

NoSummary ==
    [scan_time |-> 0, stocks_processed |-> 0, matches_found |-> 0,
     errors |-> 0, total_symbols_available |-> 0]

NoResponse ==
    [status |-> 0, success |-> FALSE, keys |-> {}, results |-> <<>>,
     total_results |-> 0, summary |-> NoSummary]

NoSymbolsResponse_silent ==
    [NoResponse EXCEPT !.status = 200, !.success = TRUE,
                       !.keys = {"success", "summary", "results",
                                 "total_results"}]

\* the 500 response of "if not symbols"
NoSymbolsResponse ==
    [NoResponse EXCEPT !.status = 500,
                       !.keys = {"success", "error", "timestamp"}]

FinishResponse_failOnBreak(sorted, proc, errs, elapsed, nsyms) ==
    IF errs > MaxErrors THEN NoSymbolsResponse
    ELSE [status |-> 200, success |-> TRUE,
          keys |-> {"success", "summary", "results", "total_results"},
          results |-> SliceTo(sorted, TopN),
          total_results |-> Len(sorted),
          summary |->
            [scan_time |-> elapsed, stocks_processed |-> proc,
             matches_found |-> Len(sorted), errors |-> errs,
             total_symbols_available |-> nsyms]]

FinishResponse_cutFirst(sorted, proc, errs, elapsed, nsyms) ==
    [status |-> 200, success |-> TRUE,
     keys |-> {"success", "summary", "results", "total_results"},
     results |-> SortByScoreDesc(SliceTo(results, TopN)),
     total_results |-> Len(sorted),
     summary |->
       [scan_time |-> elapsed, stocks_processed |-> proc,
        matches_found |-> Len(sorted), errors |-> errs,
        total_symbols_available |-> nsyms]]

\* scan_summary and the 200 response
FinishResponse(sorted, proc, errs, elapsed, nsyms) ==
    [status |-> 200, success |-> TRUE,
     keys |-> {"success", "summary", "results", "total_results"},
     results |-> SliceTo(sorted, TopN),
     total_results |-> Len(sorted),
     summary |->
       [scan_time |-> elapsed, stocks_processed |-> proc,
        matches_found |-> Len(sorted), errors |-> errs,
        total_symbols_available |-> nsyms]]

NoParams == [config |-> DefaultConfig, max_stocks |-> DefaultLimit]

\* GET /api/scan up to the loop: get_symbols, then the query parameters
ScanStart ==
    /\ pc = "idle"
    /\ \E fetched \in SymbolLists :
         LET g == get_symbols(cache, now, fetched)
         IN  /\ cache' = g.cache
             /\ start_time' = now
             /\ symbols' = g.ret
             /\ last_ok' = IF g.cache # cache THEN now ELSE last_ok
             /\ IF g.ret = <<>>
                THEN /\ response' = NoSymbolsResponse
                     /\ pc' = "done"
                     /\ UNCHANGED <<params, feed>>
                ELSE /\ \E cfg \in Configs, lim \in Limits :
                          params' = [config |-> cfg, max_stocks |-> lim]
                     /\ feed' \in Feeds(Len(SliceTo(symbols', params'.max_stocks)))
                     /\ pc' = "loop"
                     /\ UNCHANGED response
    /\ UNCHANGED <<now, i, results, processed, errors, score_args, score_ret,
                   calls>>

\* one iteration of "for i, symbol in enumerate(symbols[:max_stocks])"
ScanIter ==
    /\ pc = "loop"
    /\ ~LoopDone(i, Len(ScanList))
    /\ \E d \in FetchDurations :
         LET symbol == ScanList[i + 1]
             o == feed[i + 1]
             snap == Snapshot(o.raw)
             score == ScoreOf(snap, params.config)
         IN  /\ d = 0 \/ now <= MaxClock
             /\ i' = i + 1
             /\ IF Classify(o) = "error"
                THEN /\ errors' = errors + 1
                     /\ pc' = IF TooManyErrors(errors') THEN "finish" ELSE "loop"
                     /\ now' = now + d
                     /\ UNCHANGED <<results, processed, score_args, score_ret>>
                ELSE IF Classify(o) = "skip"
                THEN /\ now' = now + d
                     /\ UNCHANGED <<results, processed, errors, pc,
                                    score_args, score_ret>>
                ELSE /\ score_args' = [snapshot |-> snap,
                                       config |-> params.config]
                     /\ score_ret' = score
                     /\ results' = IF IsMatch(score)
                                   THEN Append(results, StockResult(symbol, score))
                                   ELSE results
                     /\ processed' = processed + 1
                     /\ now' = IF processed' % 10 = 0 THEN now + d + 1 ELSE now + d
                     /\ UNCHANGED <<errors, pc>>
    /\ UNCHANGED <<cache, symbols, params, feed, start_time, response,
                   calls, last_ok>>

\* after the loop: sort, summary, response
ScanFinish ==
    /\ \/ pc = "finish"
       \/ pc = "loop" /\ LoopDone(i, Len(ScanList))
    /\ results' = SortByScoreDesc(results)
    /\ response' = FinishResponse(results', processed, errors,
                                  now - start_time, Len(symbols))
    /\ pc' = "done"
    /\ UNCHANGED <<cache, now, symbols, params, feed, i, processed, errors,
                   start_time, score_args, score_ret, calls, last_ok>>

NoScore == [snapshot |-> Snapshot(NoRaw), config |-> DefaultConfig]

Init ==
    /\ cache = [data |-> <<>>, last_updated |-> None]
    /\ now = 0
    /\ pc = "idle"
    /\ symbols = <<>>
    /\ params = NoParams
    /\ feed = <<>>
    /\ i = 0
    /\ results = <<>>
    /\ processed = 0
    /\ errors = 0
    /\ start_time = 0
    /\ response = NoResponse
    /\ score_args = NoScore
    /\ score_ret = NaN
    /\ calls = [p \in Threads |-> NoCall]
    /\ last_ok = None

Next == ScanStart \/ ScanIter \/ ScanFinish

Spec == Init /\ [][Next]_vars

----------------------------------------------------------------------------
(* calculate_score called directly on a grid of inputs                      *)

ScoreSnaps ==
    [rsi : {R(20), R(35), R(50)},
     volume_ratio : {Q(1, 2), Q(3, 2), R(4)},
     adx : {R(20), R(25), R(60)},
     mfi : {R(20), R(30), R(100)},
     cmf : {Q(-3, 10), Q(1, 10), Q(1, 2)}]

NegVolConfig == [DefaultConfig EXCEPT !.volume_min = Q(-1, 2)]

ScoreConfigs == Configs \cup {NegCmfConfig, NegVolConfig}

InitScore ==
    /\ cache = [data |-> <<>>, last_updated |-> None]
    /\ now = 0
    /\ pc = "idle"
    /\ symbols = <<>>
    /\ params = NoParams
    /\ feed = <<>>
    /\ i = 0
    /\ results = <<>>
    /\ processed = 0
    /\ errors = 0
    /\ start_time = 0
    /\ response = NoResponse
    /\ score_args \in [snapshot : ScoreSnaps, config : ScoreConfigs]
    /\ score_ret = NaN
    /\ calls = [p \in Threads |-> NoCall]
    /\ last_ok = None

ScoreCall ==
    /\ IsNaN(score_ret)
    /\ score_ret' = ScoreOf(score_args.snapshot, score_args.config)
    /\ UNCHANGED <<cache, now, pc, symbols, params, feed, i, results,
                   processed, errors, start_time, response, score_args,
                   calls, last_ok>>

NextScore == ScoreCall

SpecScore == InitScore /\ [][NextScore]_vars

----------------------------------------------------------------------------
(* get_symbols and refresh_symbols called from concurrent request threads;  *)
(* each action is one read or write of SYMBOLS_CACHE                        *)

\* what fetch_nifty500_symbols can return to these calls
CacheLists == {<<>>, Ident(1), <<2, 1>>}

Step(p, r) == calls' = [calls EXCEPT ![p] = r]

At(p, where) == calls[p].pc = where

FetchBranch_always(fetched) == "w_data"

\* "if symbols:" after the fetch
FetchBranch(fetched) == IF fetched # <<>> THEN "w_data" ELSE "chk_data2"

\* refresh_symbols: SYMBOLS_CACHE['last_updated'] = None
Invalidate ==
    /\ At(Refresher, "idle")
    /\ cache' = [cache EXCEPT !.last_updated = None]
    /\ Step(Refresher, [calls[Refresher] EXCEPT !.pc = "enter"])
    /\ UNCHANGED <<now, scanvars, last_ok>>

\* get_symbols: current_time = time.time()
Enter(p) ==
    /\ \/ p \in Readers /\ At(p, "idle")
       \/ p = Refresher /\ At(p, "enter")
    /\ Step(p, [calls[p] EXCEPT
                  !.pc = "chk_data", !.t = now, !.seen = cache.data,
                  !.fresh = (last_ok # None /\ now - last_ok < CacheDuration)])
    /\ UNCHANGED <<cache, now, scanvars, last_ok>>

\* "if (SYMBOLS_CACHE['data'] and"
ChkData(p) ==
    /\ At(p, "chk_data")
    /\ Step(p, [calls[p] EXCEPT
                  !.pc = IF cache.data # <<>> THEN "chk_lu" ELSE "fetch"])
    /\ UNCHANGED <<cache, now, scanvars, last_ok>>

\* "SYMBOLS_CACHE['last_updated'] and"
ChkLu(p) ==
    /\ At(p, "chk_lu")
    /\ Step(p, [calls[p] EXCEPT
                  !.pc = IF cache.last_updated # None THEN "chk_age"
                         ELSE "fetch"])
    /\ UNCHANGED <<cache, now, scanvars, last_ok>>

\* "(current_time - SYMBOLS_CACHE['last_updated']) < cache_duration": the
\* subtraction raises TypeError when last_updated is None by now
ChkAge(p) ==
    /\ At(p, "chk_age")
    /\ Step(p, IF cache.last_updated = None
               THEN [calls[p] EXCEPT !.pc = "done", !.raised = TRUE]
               ELSE [calls[p] EXCEPT
                       !.pc = IF calls[p].t - cache.last_updated < CacheDuration
                              THEN "ret_cached" ELSE "fetch"])
    /\ UNCHANGED <<cache, now, scanvars, last_ok>>

\* "return SYMBOLS_CACHE['data']" of a valid cache
RetCached(p) ==
    /\ At(p, "ret_cached")
    /\ Step(p, [calls[p] EXCEPT !.pc = "done", !.ret = cache.data])
    /\ UNCHANGED <<cache, now, scanvars, last_ok>>

\* "symbols = fetch_nifty500_symbols()" and "if symbols:"
Fetch(p) ==
    /\ At(p, "fetch")
    /\ \E l \in CacheLists :
         /\ Step(p, [calls[p] EXCEPT
                       !.pc = FetchBranch(l), !.symbols = l, !.fetched = TRUE])
         /\ last_ok' = IF l # <<>> THEN now ELSE last_ok
    /\ UNCHANGED <<cache, now, scanvars>>

\* "SYMBOLS_CACHE['data'] = symbols"
WriteData(p) ==
    /\ At(p, "w_data")
    /\ cache' = [cache EXCEPT !.data = calls[p].symbols]
    /\ Step(p, [calls[p] EXCEPT !.pc = "w_lu"])
    /\ UNCHANGED <<now, scanvars, last_ok>>

\* "SYMBOLS_CACHE['last_updated'] = current_time" and "return symbols"
WriteLu(p) ==
    /\ At(p, "w_lu")
    /\ cache' = [cache EXCEPT !.last_updated = calls[p].t]
    /\ Step(p, [calls[p] EXCEPT !.pc = "done", !.ret = calls[p].symbols])
    /\ UNCHANGED <<now, scanvars, last_ok>>

\* the else branch: "if SYMBOLS_CACHE['data']:", or "return []"
ChkData2(p) ==
    /\ At(p, "chk_data2")
    /\ Step(p, IF cache.data # <<>>
               THEN [calls[p] EXCEPT !.pc = "ret_expired"]
               ELSE [calls[p] EXCEPT !.pc = "done", !.ret = <<>>])
    /\ UNCHANGED <<cache, now, scanvars, last_ok>>

\* "return SYMBOLS_CACHE['data']" of an expired cache
RetExpired(p) ==
    /\ At(p, "ret_expired")
    /\ Step(p, [calls[p] EXCEPT !.pc = "done", !.ret = cache.data])
    /\ UNCHANGED <<cache, now, scanvars, last_ok>>

\* a day goes by
DayPasses ==
    /\ now < MaxDays * CacheDuration
    /\ now' = now + CacheDuration
    /\ UNCHANGED <<cache, scanvars, calls, last_ok>>

\* the server starts to take requests at time 1 (time.time() is positive);
\* the get_symbols call of the start-up code, if it was run, has filled the
\* cache or has fetched nothing
InitCache ==
    /\ \E l \in CacheLists :
         /\ cache = get_symbols([data |-> <<>>, last_updated |-> None], 1, l).cache
         /\ last_ok = IF l # <<>> THEN 1 ELSE None
    /\ now = 1
    /\ pc = "idle"
    /\ symbols = <<>>
    /\ params = NoParams
    /\ feed = <<>>
    /\ i = 0
    /\ results = <<>>
    /\ processed = 0
    /\ errors = 0
    /\ start_time = 0
    /\ response = NoResponse
    /\ score_args = NoScore
    /\ score_ret = NaN
    /\ calls = [p \in Threads |-> NoCall]

NextCache ==
    \/ Invalidate
    \/ DayPasses
    \/ \E p \in Threads :
         \/ Enter(p)
         \/ ChkData(p)
         \/ ChkLu(p)
         \/ ChkAge(p)
         \/ RetCached(p)
         \/ Fetch(p)
         \/ WriteData(p)
         \/ WriteLu(p)
         \/ ChkData2(p)
         \/ RetExpired(p)

SpecCache == InitCache /\ [][NextCache]_vars

\* threads inside get_symbols or refresh_symbols
Running == {p \in Threads : calls[p].pc \notin {"idle", "done"}}

\* the calls made one after the other
NextCacheSeq == NextCache /\ Cardinality(Running') <= 1

SpecCacheSeq == InitCache /\ [][NextCacheSeq]_vars

----------------------------------------------------------------------------
(* Properties                                                               *)

\* position of a symbol in the symbol list of the scan
PosOf(sym) == CHOOSE j \in 1..Len(symbols) : symbols[j] = sym

\* what the data source answered for the j-th symbol of the scan
FailedAt(j) == feed[j].kind = "raise"
ShortAt(j) == feed[j].kind = "hist" /\ feed[j].bars < MinBars
ScoredAt(j) == feed[j].kind = "hist" /\ feed[j].bars >= MinBars
ScoreAt(j) == ScoreOf(Snapshot(feed[j].raw), params.config)
MatchAt(j) == ScoredAt(j) /\ RLeq(R(6), ScoreAt(j))

Scanned == pc = "done" /\ symbols # <<>>

\* C1: every value calculate_score returns lies in [0, 10].
C1_ScoreInRange ==
    ~IsNaN(score_ret) => RLeq(R(0), score_ret) /\ RLeq(score_ret, R(10))

\* C2 as stated: with an error ceiling of 10 the scan has halted once 11
\* symbols have failed, and the error count stays 11.
C2_Original == errors >= 11 => (pc # "loop" /\ errors = 11)

\* C2 amended: the ceiling is 20.  The loop is left on errors exactly at the
\* failure that makes the count 21, that failing symbol is the last one
\* fetched, and the summary reports 21 errors.
C2_Amended ==
    /\ errors > MaxErrors =>
         /\ pc \in {"finish", "done"}
         /\ errors = MaxErrors + 1
         /\ FailedAt(i)
         /\ Cardinality({j \in 1..i : FailedAt(j)}) = MaxErrors + 1
         /\ pc = "done" => response.summary.errors = MaxErrors + 1
    /\ pc = "finish" => errors > MaxErrors

C2_Witness ==
    /\ Scanned
    /\ response.summary.errors = MaxErrors + 1
    /\ i = MaxErrors + 1
    /\ i < Len(ScanList)

\* C3: the returned results are ordered by score descending, and results of
\* equal score keep the order of their symbols in the symbol list.
C3_SortedStable ==
    (Scanned /\ response.success) =>
        \A a, b \in 1..Len(response.results) :
            a < b =>
              /\ response.results[a].score >= response.results[b].score
              /\ response.results[a].score = response.results[b].score
                   => PosOf(response.results[a].symbol)
                        < PosOf(response.results[b].symbol)

\* symbols [B, A] of equal score stay [B, A], behind a later, better symbol
C3_Witness ==
    /\ Scanned
    /\ symbols = <<2, 1>> \/ symbols = Ident(3)
    /\ Len(response.results) >= 2
    /\ LET n == Len(response.results)
       IN  /\ response.results[n].score = response.results[n - 1].score
           /\ symbols = Ident(3) =>
                /\ n = 3
                /\ response.results[1].symbol = 2
                /\ response.results[1].score > response.results[2].score

\* C4: when no symbol of the scan fails, stocks_processed is the number of
\* symbols scored, matches_found the number of those scoring at least 6.0,
\* and every returned result belongs to a symbol scoring at least 6.0.
C4_Counts ==
    (Scanned /\ \A j \in 1..Len(ScanList) : ~FailedAt(j)) =>
        /\ response.summary.stocks_processed
             = Cardinality({j \in 1..Len(ScanList) : ScoredAt(j)})
        /\ response.summary.matches_found
             = Cardinality({j \in 1..Len(ScanList) : MatchAt(j)})
        /\ \A k \in 1..Len(response.results) :
             MatchAt(PosOf(response.results[k].symbol))

\* scores [7.2, 8.9, 3.0] with limit 10
C4_Witness ==
    /\ Scanned
    /\ params = [config |-> DefaultConfig, max_stocks |-> 10]
    /\ feed = <<Hist(MinBars, Raw72), Hist(3 * MinBars, Raw89),
                Hist(3 * MinBars, Raw30)>>
    /\ response.results = <<[symbol |-> 2, score |-> 89],
                            [symbol |-> 1, score |-> 72]>>
    /\ response.summary.matches_found = 2
    /\ response.summary.stocks_processed = 3

\* the snapshot RSI=50, volume_ratio=1.5, ADX=25, MFI=30, CMF=0.1 scored with
\* the default thresholds
BoundaryCall ==
    [snapshot |-> [rsi |-> R(50), volume_ratio |-> Q(3, 2), adx |-> R(25),
                   mfi |-> R(30), cmf |-> Q(1, 10)],
     config |-> DefaultConfig]

\* C5 as stated: the boundary snapshot scores exactly 5.6 and is no match.
C5_Original ==
    (score_args = BoundaryCall /\ ~IsNaN(score_ret)) =>
        score_ret = Q(56, 10) /\ ~IsMatch(score_ret)

\* C5 amended: the boundary snapshot scores exactly 3.6 (RSI 0, since 50 is
\* outside [25, 45] and 15 away from the midpoint 35) and is no match.
C5_Amended ==
    (score_args = BoundaryCall /\ ~IsNaN(score_ret)) =>
        score_ret = Q(36, 10) /\ RLt(score_ret, R(6))

C5_Witness == score_args = BoundaryCall /\ ~IsNaN(score_ret)

\* C6: a scan ends in the failure response exactly when get_symbols returned
\* no symbols, and then nothing was scanned; a scan over a non-empty list
\* ends in the success response, which carries a results list.
C6_NoSymbols ==
    pc = "done" =>
        IF symbols = <<>>
        THEN /\ ~response.success
             /\ response.status = 500
             /\ "error" \in response.keys
             /\ "results" \notin response.keys
             /\ i = 0 /\ feed = <<>> /\ processed = 0 /\ errors = 0
        ELSE /\ response.success
             /\ response.status = 200
             /\ "results" \in response.keys

C6_Witness == pc = "done" /\ symbols = <<>> /\ response.status = 500

\* C7: a symbol that raises adds one to errors, adds no result and does not
\* end the request; the finished scan reports success with exactly the
\* matches among the symbols fetched, also when it stopped on errors.
C7_ErrorsCaught ==
    /\ [][(pc = "loop" /\ i < Len(ScanList) /\ FailedAt(i + 1)) =>
            /\ errors' = errors + 1
            /\ results' = results
            /\ processed' = processed
            /\ pc' \in {"loop", "finish"}
            /\ response' = response]_vars
    /\ [](Scanned =>
            /\ response.success
            /\ response.status = 200
            /\ response.summary.errors = errors
            /\ response.total_results
                 = Cardinality({j \in 1..i : MatchAt(j)})
            /\ \A k \in 1..Len(response.results) :
                 PosOf(response.results[k].symbol) \in
                     {j \in 1..i : MatchAt(j)})

C7_Witness ==
    /\ Scanned
    /\ errors > MaxErrors
    /\ i < Len(ScanList)
    /\ response.success
    /\ Len(response.results) = 1

\* C8: a symbol with fewer than 20 bars leaves errors unchanged and the loop
\* running, and errors changes only by one, at a symbol that raises.
C8_ShortNotCounted ==
    [][/\ (pc = "loop" /\ i < Len(ScanList) /\ ShortAt(i + 1)) =>
             (errors' = errors /\ pc' = "loop" /\ i' = i + 1)
       /\ errors' # errors => (FailedAt(i + 1) /\ errors' = errors + 1)]_vars

\* more short histories than the error ceiling, and the scan ran to the end
C8_Witness ==
    /\ Scanned
    /\ Len(ScanList) > MaxErrors
    /\ \A j \in 1..Len(ScanList) : ShortAt(j)
    /\ i = Len(ScanList)
    /\ response.success
    /\ response.summary.errors = 0

\* C9 as stated: errors counts every skipped symbol, raised or too short.
C9_Original ==
    errors = Cardinality({j \in 1..i : FailedAt(j) \/ ShortAt(j)})

\* C9 amended: errors counts the symbols that raised; the symbols skipped for
\* a short history are counted by neither errors nor processed.
C9_Amended ==
    /\ errors = Cardinality({j \in 1..i : FailedAt(j)})
    /\ i - errors - processed = Cardinality({j \in 1..i : ShortAt(j)})

C9_Witness ==
    /\ Scanned
    /\ i = 3
    /\ FailedAt(1) /\ ShortAt(2) /\ ScoredAt(3)
    /\ response.summary.errors = 1
    /\ response.summary.stocks_processed = 1

\* C10 as stated: once more than 25 seconds have elapsed, no further symbol
\* is fetched.
C10_Original ==
    [][(pc = "loop" /\ now - start_time > 25 * TicksPerSecond) => i' = i]_vars

\* C10 amended: the loop is left only when the symbols to scan are used up
\* or errors exceeds 20, whatever time has elapsed.
C10_Amended ==
    [][(pc = "loop" /\ pc' # "loop") =>
          (i' = Len(ScanList) \/ errors' > MaxErrors)]_vars

\* a second slow fetch was started 30 seconds into the scan
C10_Witness ==
    /\ Scanned
    /\ response.success
    /\ i = Len(ScanList)
    /\ response.summary.scan_time >= 2 * 30 * TicksPerSecond

\* the called snapshot with one input replaced
WithVolume(v) == [score_args.snapshot EXCEPT !.volume_ratio = v]
WithAdx(v) == [score_args.snapshot EXCEPT !.adx = v]
WithMfi(v) == [score_args.snapshot EXCEPT !.mfi = v]
WithCmf(v) == [score_args.snapshot EXCEPT !.cmf = v]

\* raising input x of the call to y, both at or above the minimum m, gives
\* snapshot s2, whose score is not smaller
NotSmaller(x, y, m, s2) ==
    (RLeq(m, x) /\ RLeq(x, y)) =>
        RLeq(score_ret, ScoreOf(s2, score_args.config))

\* C11: the score does not decrease when one of volume_ratio, adx, mfi, cmf
\* grows and both its values are at or above its minimum.
C11_Monotone ==
    ~IsNaN(score_ret) =>
        \A s2 \in ScoreSnaps :
            LET s == score_args.snapshot
                c == score_args.config
            IN  /\ NotSmaller(s.volume_ratio, s2.volume_ratio, c.volume_min,
                              WithVolume(s2.volume_ratio))
                /\ NotSmaller(s.adx, s2.adx, c.adx_min, WithAdx(s2.adx))
                /\ NotSmaller(s.mfi, s2.mfi, c.mfi_min, WithMfi(s2.mfi))
                /\ NotSmaller(s.cmf, s2.cmf, c.cmf_min, WithCmf(s2.cmf))

\* the score field of the j-th symbol's result
KeyAt(j) == Round1(ScoreAt(j))

\* the j-th symbol of the scan is in the returned results
Returned(j) ==
    \E k \in 1..Len(response.results) : response.results[k].symbol = symbols[j]

\* result x goes before result y in the ranking
Before(xscore, xpos, yscore, ypos) ==
    xscore > yscore \/ (xscore = yscore /\ xpos < ypos)

\* C12: the returned results are at most 25 and are the first min(25, m)
\* entries of the ranking of all m matches: they are matches, in ranking
\* order, and every match left out ranks behind every match returned.
C12_TopN ==
    (Scanned /\ response.success) =>
        LET M == {j \in 1..i : MatchAt(j)}
            res == response.results
        IN  /\ Len(res) <= 25
            /\ Len(res) = IF Cardinality(M) < 25 THEN Cardinality(M) ELSE 25
            /\ \A k \in 1..Len(res) :
                 /\ PosOf(res[k].symbol) \in M
                 /\ res[k].score = KeyAt(PosOf(res[k].symbol))
            /\ \A a, b \in 1..Len(res) :
                 a < b => Before(res[a].score, PosOf(res[a].symbol),
                                 res[b].score, PosOf(res[b].symbol))
            /\ \A j \in M : \A k \in 1..Len(res) :
                 ~Returned(j) =>
                     Before(res[k].score, PosOf(res[k].symbol), KeyAt(j), j)

\* more than 25 matches, the best of them found after the 25th symbol
C12_Witness ==
    /\ Scanned
    /\ response.total_results > 25
    /\ Len(response.results) = 25
    /\ response.results[1].symbol > 25
    /\ response.results[1].score > response.results[2].score

\* C13: for every limit, every symbol fetched is among the first `limit`
\* entries of the symbol list, and once a symbol has been fetched
\* stocks_processed + errors is at most min(limit, number of symbols).
C13_WithinLimit ==
    /\ \A j \in 1..i : j <= params.max_stocks /\ j <= Len(symbols)
    /\ i > 0 =>
         processed + errors <= (IF params.max_stocks < Len(symbols)
                                THEN params.max_stocks ELSE Len(symbols))

\* the value passed to calculate_score for a last-bar value x
OrDefault(x, default) == IF IsNaN(x) THEN default ELSE x

\* C15: a symbol with enough bars is scored, neither skipped nor counted as
\* an error, on its indicator values with RSI 50, MFI 50, ADX 20 and CMF 0
\* in place of the undefined ones.
C15_Defaults ==
    /\ [](( i >= 1 /\ ScoredAt(i)) =>
            /\ score_args.snapshot.rsi = OrDefault(feed[i].raw.rsi, R(50))
            /\ score_args.snapshot.mfi = OrDefault(feed[i].raw.mfi, R(50))
            /\ score_args.snapshot.adx = OrDefault(feed[i].raw.adx, R(20))
            /\ score_args.snapshot.cmf = OrDefault(feed[i].raw.cmf, R(0))
            /\ score_args.config = params.config
            /\ ~IsNaN(score_ret))
    /\ [][(pc = "loop" /\ i < Len(ScanList) /\ ScoredAt(i + 1)) =>
            (processed' = processed + 1 /\ errors' = errors /\ pc' = "loop")]_vars

\* one symbol with every indicator undefined, one with RSI and ADX undefined
C15_Witness ==
    /\ Scanned
    /\ i = 2
    /\ feed[1].raw = RawNaN
    /\ feed[2].raw = RawPart
    /\ score_args.snapshot.mfi = R(95)
    /\ score_args.snapshot.adx = R(20)
    /\ response.summary.stocks_processed = 2
    /\ response.summary.errors = 0

\* C14: every get_symbols call that has ended returned a list, one that a
\* single fetch produced, and not the empty list if the cache held a list
\* when the call began; the cache holds a list that a single fetch produced.
C14_SafeCalls ==
    /\ \A p \in Threads :
         calls[p].pc = "done" =>
             /\ ~calls[p].raised
             /\ calls[p].ret \in CacheLists
             /\ calls[p].seen # <<>> => calls[p].ret # <<>>
    /\ cache.data \in CacheLists

\* C16: a get_symbols call begun less than cache_duration after the latest
\* fetch of a non-empty list returns the cached list and fetches nothing.
C16_FreshNoFetch ==
    \A p \in Readers :
        (calls[p].pc = "done" /\ calls[p].fresh) =>
            /\ ~calls[p].fetched
            /\ ~calls[p].raised
            /\ calls[p].ret = calls[p].seen
            /\ calls[p].ret # <<>>

\* C17: from a fetch that returned nothing to its return, a get_symbols call
\* leaves SYMBOLS_CACHE as it is and returns the cached list; the cached
\* list is only replaced by a non-empty list; a call that returns while the
\* cache holds a list does not return the empty list.
C17_EmptyFetchFrame ==
    [][\A p \in Threads :
         calls'[p] # calls[p] =>
           /\ (calls[p].pc = "fetch" /\ calls'[p].symbols = <<>>) =>
                  cache' = cache
           /\ (calls[p].fetched /\ calls[p].symbols = <<>>) =>
                  /\ cache' = cache
                  /\ calls'[p].pc = "done" =>
                       (~calls'[p].raised /\ calls'[p].ret = cache.data)
           /\ cache'.data # cache.data => cache'.data # <<>>
           /\ (calls'[p].pc = "done" /\ ~calls'[p].raised /\ cache.data # <<>>)
                  => calls'[p].ret # <<>>]_vars

\* a call whose fetch returned nothing has returned the expired cached list
C17_Witness ==
    \E p \in Threads :
        /\ calls[p].pc = "done"
        /\ calls[p].fetched
        /\ calls[p].symbols = <<>>
        /\ calls[p].ret # <<>>
        /\ calls[p].ret = cache.data
        /\ cache.last_updated # None
        /\ calls[p].t - cache.last_updated >= CacheDuration

====
